---- MODULE Spec2Model ----
(***************************************************************************)
(* Model of the risk scoring and moving-average pipeline of Econ_Sentinel: *)
(*   backend/shared/risk_calculator.py   (RiskCalculator)                  *)
(*   backend/shared/dynamodb_client.py   (DynamoDBClient, risk_scores)     *)
(*   backend/shared/data_parser.py       (DataParser.normalize_timestamp)  *)
(*                                                                         *)
(* Numbers.  A Python float is an IEEE 754 double and is modelled as one:  *)
(* <<sign, m, e>> with a significand of at most 53 bits, and every         *)
(* operation (+, -, *, /, int, round) rounds as the double operation does. *)
(* Significands do not fit a machine integer of the checker, so they are   *)
(* kept as sequences of 15-bit limbs.                                      *)
(*                                                                         *)
(* Values.  Where the code dispatches on the type of a value (the values   *)
(* of an item), a Python value is a pair <<type, payload>>: "str", "int",  *)
(* "Decimal", "float", "dict", "list".  A stored attribute is a pair of a  *)
(* DynamoDB type and a payload: <<"S", string>> or <<"N", number>>.        *)
(*                                                                         *)
(* Timestamps.  A timestamp string is modelled by a sequence compared      *)
(* lexicographically, as DynamoDB compares string sort keys: <<day, sec>>  *)
(* is the 20-character "YYYY-MM-DDTHH:MM:SSZ" and <<day>> the 10-character *)
(* bare date "YYYY-MM-DD" (a proper prefix, hence smaller).                *)
(***************************************************************************)
EXTENDS Integers, Sequences, FiniteSets

VARIABLES store, last, calls

vars == <<store, last, calls>>

(***************************************************************************)
(* Bounds of the model.                                                    *)
(***************************************************************************)
MaxDay == 1
MaxItems == 2
MaxLimit == 2
MaxPct == 62
PctScale == 200
MaxDev == 8400
MaxCalls == 2

(***************************************************************************)
(* Program constants.                                                      *)
(***************************************************************************)
NORMAL_THRESHOLD == 5
WARNING_THRESHOLD == 15
\* '%Y-%m-%dT23:59:59Z': the last second of a day; T00:00:00Z is second 0.
LastSecond == 86399
\* days: int = 30, the default look-back of the moving average.
DefaultDays == 30
\* limit=1000 in get_recent_scores_for_average.
AverageLimit == 1000

\* Names bound at module level in dynamodb_client.py (its import statements
\* and its class); a name used in a method body and found neither here nor
\* among the builtins raises NameError when the expression is evaluated.
ModuleGlobals ==
    {"os", "boto3", "List", "Dict", "Optional", "datetime", "timedelta",
     "Decimal", "Key", "DynamoDBClient"}

None == <<>>
Min(a, b) == IF a < b THEN a ELSE b
Abs(x) == IF x < 0 THEN -x ELSE x

(***************************************************************************)
(* Natural numbers of any size: little-endian sequences of limbs in        *)
(* 0..Base-1 without a high zero limb (<<>> is 0).  They carry the 53-bit  *)
(* significands of Python floats.                                          *)
(***************************************************************************)
LimbBits == 15
Base == 2^LimbBits
\* An IEEE 754 double has a 53-bit significand.
Precision == 53

RECURSIVE BigNorm(_)
BigNorm(x) ==
    IF x = <<>> THEN x
    ELSE IF x[Len(x)] = 0 THEN BigNorm(SubSeq(x, 1, Len(x) - 1))
    ELSE x

RECURSIVE BigFromInt(_)
BigFromInt(n) ==
    IF n = 0 THEN <<>> ELSE <<n % Base>> \o BigFromInt(n \div Base)

RECURSIVE BigToInt(_)
BigToInt(x) ==
    IF x = <<>> THEN 0 ELSE x[1] + Base * BigToInt(Tail(x))

\* x * k + c for a limb-sized k and c.
RECURSIVE BigMulSmall(_, _, _)
BigMulSmall(x, k, c) ==
    IF x = <<>>
    THEN BigFromInt(c)
    ELSE LET t == x[1] * k + c
         IN  <<t % Base>> \o BigMulSmall(Tail(x), k, t \div Base)

RECURSIVE BigAddCarry(_, _, _)
BigAddCarry(x, y, c) ==
    IF x = <<>> /\ y = <<>>
    THEN BigFromInt(c)
    ELSE LET a == IF x = <<>> THEN 0 ELSE x[1]
             b == IF y = <<>> THEN 0 ELSE y[1]
             t == a + b + c
         IN  <<t % Base>> \o BigAddCarry(IF x = <<>> THEN x ELSE Tail(x),
                                         IF y = <<>> THEN y ELSE Tail(y),
                                         t \div Base)

BigAdd(x, y) == BigAddCarry(x, y, 0)

\* x - y - b for x >= y + b, before the high zero limbs are dropped.
RECURSIVE BigSubBorrow(_, _, _)
BigSubBorrow(x, y, b) ==
    IF x = <<>>
    THEN <<>>
    ELSE LET t == x[1] - (IF y = <<>> THEN 0 ELSE y[1]) - b
         IN  <<t % Base>> \o BigSubBorrow(Tail(x),
                                          IF y = <<>> THEN y ELSE Tail(y),
                                          IF t < 0 THEN 1 ELSE 0)

BigSub(x, y) == BigNorm(BigSubBorrow(x, y, 0))

\* -1, 0 or 1 as x is below, equal to or above y.
RECURSIVE BigCmp(_, _)
BigCmp(x, y) ==
    IF Len(x) # Len(y) THEN (IF Len(x) < Len(y) THEN -1 ELSE 1)
    ELSE IF x = <<>> THEN 0
    ELSE IF x[Len(x)] # y[Len(y)]
    THEN (IF x[Len(x)] < y[Len(y)] THEN -1 ELSE 1)
    ELSE BigCmp(SubSeq(x, 1, Len(x) - 1), SubSeq(y, 1, Len(y) - 1))

RECURSIVE BigMulRaw(_, _)
BigMulRaw(x, y) ==
    IF y = <<>>
    THEN <<>>
    ELSE BigAdd(BigMulSmall(x, y[1], 0), <<0>> \o BigMulRaw(x, Tail(y)))

BigMul(x, y) == BigNorm(BigMulRaw(x, y))

\* <<quotient limbs, remainder>> of x by a limb-sized d.
RECURSIVE BigDivSmallRaw(_, _)
BigDivSmallRaw(x, d) ==
    IF x = <<>>
    THEN <<<<>>, 0>>
    ELSE LET hi == BigDivSmallRaw(Tail(x), d)
             t == hi[2] * Base + x[1]
         IN  <<<<t \div d>> \o hi[1], t % d>>

BigDivSmall(x, d) ==
    LET qr == BigDivSmallRaw(x, d) IN <<BigNorm(qr[1]), BigFromInt(qr[2])>>

BigBitLen(x) ==
    IF x = <<>>
    THEN 0
    ELSE LimbBits * (Len(x) - 1)
           + (CHOOSE n \in 1..LimbBits :
                 2^(n - 1) <= x[Len(x)] /\ x[Len(x)] < 2^n)

BigBit(x, i) ==
    IF i \div LimbBits >= Len(x) THEN 0
    ELSE (x[(i \div LimbBits) + 1] \div 2^(i % LimbBits)) % 2

\* <<quotient, remainder>> of x by any d > 0, one bit of x at a time from
\* the top.
RECURSIVE BigDivBits(_, _, _, _, _)
BigDivBits(x, d, i, q, r) ==
    IF i < 0
    THEN <<q, r>>
    ELSE LET r2 == BigMulSmall(r, 2, BigBit(x, i))
             fits == BigCmp(r2, d) >= 0
             q3 == BigMulSmall(q, 2, IF fits THEN 1 ELSE 0)
             r3 == IF fits THEN BigSub(r2, d) ELSE r2
         IN  IF Len(q3) + Len(r3) >= 0
             THEN BigDivBits(x, d, i - 1, q3, r3)
             ELSE <<q3, r3>>

BigDivRem(x, d) ==
    IF Len(d) = 1
    THEN BigDivSmall(x, d[1])
    ELSE BigDivBits(x, d, BigBitLen(x) - 1, <<>>, <<>>)

BigShl(x, n) ==
    IF x = <<>>
    THEN x
    ELSE IF n < LimbBits
    THEN BigMulSmall(x, 2^n, 0)
    ELSE [i \in 1..(n \div LimbBits) |-> 0]
           \o BigMulSmall(x, 2^(n % LimbBits), 0)

\* <<x div 2^n, x mod 2^n>>
BigShr(x, n) ==
    LET limbs == n \div LimbBits
    IN  IF limbs >= Len(x)
        THEN <<<<>>, x>>
        ELSE LET qr == BigDivSmallRaw(SubSeq(x, limbs + 1, Len(x)),
                                      2^(n % LimbBits))
             IN  <<BigNorm(qr[1]),
                   BigNorm(SubSeq(x, 1, limbs) \o BigFromInt(qr[2]))>>

\* x / 2^n rounded to the nearest integer, a tie to the even one; inexact
\* says that x itself stands for a value slightly above x.
BigRoundShr(x, n, inexact) ==
    IF n <= 0
    THEN x
    ELSE LET qr == BigShr(x, n)
             half == BigCmp(qr[2], BigShl(<<1>>, n - 1))
             up == \/ half > 0
                   \/ half = 0 /\ (inexact \/ BigBit(qr[1], 0) = 1)
         IN  IF up THEN BigAdd(qr[1], <<1>>) ELSE qr[1]

(***************************************************************************)
(* Python floats (IEEE 754 doubles, round to nearest, ties to even):       *)
(* <<sign, m, e>> is sign * m * 2^e with sign 1 or -1 and m an odd natural *)
(* below 2^53; 0.0 is <<1, <<>>, 0>> and -0.0 is <<-1, <<>>, 0>>.          *)
(* Infinities, NaN and subnormals are outside the model.                   *)
(***************************************************************************)
RECURSIVE FloatCanon(_, _, _)
FloatCanon(sign, m, e) ==
    IF m = <<>> THEN <<sign, <<>>, 0>>
    ELSE IF m[1] = 0 THEN FloatCanon(sign, Tail(m), e + LimbBits)
    ELSE IF m[1] % 2 = 1 THEN <<sign, m, e>>
    ELSE LET z == CHOOSE n \in 1..(LimbBits - 1) :
                      m[1] % 2^n = 0 /\ (m[1] \div 2^n) % 2 = 1
         IN  <<sign, BigShr(m, z)[1], e + z>>

\* The double nearest to sign * m * 2^e (or to a value just above m when
\* inexact, which needs m to be longer than 53 bits).
FloatRound(sign, m, e, inexact) ==
    LET drop == BigBitLen(m) - Precision
    IN  IF drop <= 0
        THEN FloatCanon(sign, m, e)
        ELSE FloatCanon(sign, BigRoundShr(m, drop, inexact), e + drop)

FloatOfInt(n) == FloatCanon(IF n < 0 THEN -1 ELSE 1, BigFromInt(Abs(n)), 0)

FloatIsZero(x) == x[2] = <<>>
FloatNeg(x) == <<-x[1], x[2], x[3]>>
FloatAbs(x) == <<1, x[2], x[3]>>

\* x < y, x = y, x > y as numbers: -1, 0, 1 (0.0 and -0.0 are equal).
FloatCmp(x, y) ==
    LET e == Min(x[3], y[3])
        a == BigShl(x[2], x[3] - e)
        b == BigShl(y[2], y[3] - e)
    IN  IF FloatIsZero(x) /\ FloatIsZero(y) THEN 0
        ELSE IF FloatIsZero(x) THEN -y[1]
        ELSE IF FloatIsZero(y) THEN x[1]
        ELSE IF x[1] # y[1] THEN x[1]
        ELSE x[1] * BigCmp(a, b)

FloatLess(x, y) == FloatCmp(x, y) < 0
FloatEq(x, y) == FloatCmp(x, y) = 0

\* x + y
FloatAdd(x, y) ==
    LET e == Min(x[3], y[3])
        a == BigShl(x[2], x[3] - e)
        b == BigShl(y[2], y[3] - e)
        c == BigCmp(a, b)
    IN  IF FloatIsZero(x) /\ FloatIsZero(y)
        THEN <<IF x[1] = -1 /\ y[1] = -1 THEN -1 ELSE 1, <<>>, 0>>
        ELSE IF FloatIsZero(x) THEN y
        ELSE IF FloatIsZero(y) THEN x
        ELSE IF x[1] = y[1] THEN FloatRound(x[1], BigAdd(a, b), e, FALSE)
        ELSE IF c = 0 THEN <<1, <<>>, 0>>
        ELSE IF c > 0 THEN FloatRound(x[1], BigSub(a, b), e, FALSE)
        ELSE FloatRound(y[1], BigSub(b, a), e, FALSE)

\* x - y
FloatSub(x, y) == FloatAdd(x, FloatNeg(y))

\* x * y
FloatMul(x, y) ==
    IF FloatIsZero(x) \/ FloatIsZero(y)
    THEN <<x[1] * y[1], <<>>, 0>>
    ELSE FloatRound(x[1] * y[1], BigMul(x[2], y[2]), x[3] + y[3], FALSE)

\* x / y for y # 0: the quotient is carried to 3 bits more than a double
\* holds, the remainder says whether anything follows.
FloatDiv(x, y) ==
    IF FloatIsZero(x)
    THEN <<x[1] * y[1], <<>>, 0>>
    ELSE LET k == Precision + 3 + BigBitLen(y[2])
             qr == BigDivRem(BigShl(x[2], k), y[2])
         IN  FloatRound(x[1] * y[1], qr[1], x[3] - y[3] - k, qr[2] # <<>>)

\* int(x): the integer part, toward zero.
FloatInt(x) ==
    x[1] * BigToInt(IF x[3] >= 0 THEN BigShl(x[2], x[3])
                                 ELSE BigShr(x[2], -x[3])[1])

\* round(x, 2): the exact value of x to the nearest multiple of 0.01, ties
\* to the even one, and of that decimal the nearest double.
round2(x) ==
    LET hundred == BigMulSmall(x[2], 100, 0)
        h == IF x[3] >= 0 THEN BigShl(hundred, x[3])
                          ELSE BigRoundShr(hundred, -x[3], FALSE)
        hundredths == FloatCanon(x[1], h, 0)
    IN  FloatDiv(hundredths, FloatOfInt(100))

(***************************************************************************)
(* RiskCalculator                                                          *)
(***************************************************************************)
calculate_percent_change_NoGuard(current_value, moving_avg) ==
    LET den == IF FloatIsZero(moving_avg) THEN FloatOfInt(1) ELSE moving_avg
    IN  FloatMul(FloatDiv(FloatSub(current_value, moving_avg), den),
                 FloatOfInt(100))

calculate_percent_change(current_value, moving_avg) ==
    IF FloatIsZero(moving_avg)
    THEN FloatOfInt(0)
    ELSE FloatMul(FloatDiv(FloatSub(current_value, moving_avg), moving_avg),
                  FloatOfInt(100))

calculate_risk_score_NoCap(pct_change) ==
    LET abs_change == FloatAbs(pct_change)
    IN  IF FloatLess(abs_change, FloatOfInt(NORMAL_THRESHOLD))
        THEN Min(30, FloatInt(FloatMul(abs_change, FloatOfInt(6))))
        ELSE IF FloatLess(abs_change, FloatOfInt(WARNING_THRESHOLD))
        THEN LET range_size == FloatSub(abs_change, FloatOfInt(NORMAL_THRESHOLD))
                 max_range == FloatSub(FloatOfInt(WARNING_THRESHOLD),
                                       FloatOfInt(NORMAL_THRESHOLD))
             IN  31 + FloatInt(FloatMul(FloatDiv(range_size, max_range),
                                        FloatOfInt(39)))
        ELSE LET range_size == FloatSub(abs_change, FloatOfInt(WARNING_THRESHOLD))
             IN  71 + FloatInt(FloatMul(FloatDiv(range_size, FloatOfInt(35)),
                                        FloatOfInt(29)))

calculate_risk_score_Rounded(pct_change) ==
    LET abs_change == FloatAbs(pct_change)
        half == FloatDiv(FloatOfInt(1), FloatOfInt(2))
    IN  IF FloatLess(abs_change, FloatOfInt(NORMAL_THRESHOLD))
        THEN Min(30, FloatInt(FloatAdd(FloatMul(abs_change, FloatOfInt(6)),
                                       half)))
        ELSE IF FloatLess(abs_change, FloatOfInt(WARNING_THRESHOLD))
        THEN LET range_size == FloatSub(abs_change, FloatOfInt(NORMAL_THRESHOLD))
                 max_range == FloatSub(FloatOfInt(WARNING_THRESHOLD),
                                       FloatOfInt(NORMAL_THRESHOLD))
             IN  31 + FloatInt(FloatMul(FloatDiv(range_size, max_range),
                                        FloatOfInt(39)))
        ELSE LET range_size == FloatSub(abs_change, FloatOfInt(WARNING_THRESHOLD))
             IN  71 + Min(29, FloatInt(FloatMul(FloatDiv(range_size,
                                                         FloatOfInt(35)),
                                                FloatOfInt(29))))

calculate_risk_score(pct_change) ==
    LET abs_change == FloatAbs(pct_change)
    IN  IF FloatLess(abs_change, FloatOfInt(NORMAL_THRESHOLD))
        THEN Min(30, FloatInt(FloatMul(abs_change, FloatOfInt(6))))
        ELSE IF FloatLess(abs_change, FloatOfInt(WARNING_THRESHOLD))
        THEN LET range_size == FloatSub(abs_change, FloatOfInt(NORMAL_THRESHOLD))
                 max_range == FloatSub(FloatOfInt(WARNING_THRESHOLD),
                                       FloatOfInt(NORMAL_THRESHOLD))
             IN  31 + FloatInt(FloatMul(FloatDiv(range_size, max_range),
                                        FloatOfInt(39)))
        ELSE LET range_size == FloatSub(abs_change, FloatOfInt(WARNING_THRESHOLD))
             IN  71 + Min(29, FloatInt(FloatMul(FloatDiv(range_size,
                                                         FloatOfInt(35)),
                                                FloatOfInt(29))))

determine_severity_Signed(pct_change) ==
    IF FloatLess(pct_change, FloatOfInt(NORMAL_THRESHOLD))
    THEN "normal"
    ELSE IF FloatLess(pct_change, FloatOfInt(WARNING_THRESHOLD))
    THEN "warning"
    ELSE "critical"

determine_severity(pct_change) ==
    LET abs_change == FloatAbs(pct_change)
    IN  IF FloatLess(abs_change, FloatOfInt(NORMAL_THRESHOLD))
        THEN "normal"
        ELSE IF FloatLess(abs_change, FloatOfInt(WARNING_THRESHOLD))
        THEN "warning"
        ELSE "critical"

calculate_risk(current_value, moving_avg) ==
    LET pct_change == calculate_percent_change(current_value, moving_avg)
    IN  [pct_change |-> round2(pct_change),
         risk_score |-> calculate_risk_score(pct_change),
         severity |-> determine_severity(pct_change)]

(***************************************************************************)
(* Timestamp strings                                                       *)
(***************************************************************************)
\* Python / DynamoDB string order: the first differing position decides, a
\* proper prefix is smaller.
StrLess(a, b) ==
    \E i \in 1..Len(b) :
        /\ i <= Len(a) + 1
        /\ \A j \in 1..(i - 1) : a[j] = b[j]
        /\ (i = Len(a) + 1 \/ a[i] < b[i])

StrLE(a, b) == a = b \/ StrLess(a, b)

Days == 0..MaxDay
Seconds == {0, LastSecond}
CanonicalTimestamps == {<<d, s>> : d \in Days, s \in Seconds}
BareDates == {<<d>> : d \in Days}
Metrics == {"freight_cost_index", "inflation_rate_cpi"}

\* DataParser.normalize_timestamp on the two shapes of the model: a string
\* holding 'T' and 'Z' is returned as it is, a 10-character date gets
\* T00:00:00Z appended.
normalize_timestamp(timestamp) ==
    IF Len(timestamp) = 2
    THEN timestamp
    ELSE IF Len(timestamp) = 1
    THEN timestamp \o <<0>>
    ELSE timestamp

(***************************************************************************)
(* The risk_scores table and DynamoDBClient                                *)
(***************************************************************************)
StrValue(s) == <<"str", s>>
IntValue(n) == <<"int", n>>
\* Decimal(str(x)) of a float x: the decimal that str prints, which is the
\* shortest one that float() turns back into x; the payload is that x.
Decimal(x) == <<"Decimal", x>>
\* float(v) of an int, a Decimal or a float.
float(v) ==
    IF v[1] = "int" THEN <<"float", FloatOfInt(v[2])>> ELSE <<"float", v[2]>>

\* Decimal values become floats wherever the method looks: the values of
\* the dict, of a dict value (recursively), and the elements of a list
\* value (a dict element recursively, a list element left as it is).
RECURSIVE _convert_decimal_to_float(_)
_convert_decimal_to_float(item) ==
    [key \in DOMAIN item |->
        LET value == item[key]
        IN  IF value[1] = "Decimal"
            THEN float(value)
            ELSE IF value[1] = "dict"
            THEN <<"dict", _convert_decimal_to_float(value[2])>>
            ELSE IF value[1] = "list"
            THEN <<"list",
                   [n \in 1..Len(value[2]) |->
                       LET v == value[2][n]
                       IN  IF v[1] = "dict"
                           THEN <<"dict", _convert_decimal_to_float(v[2])>>
                           ELSE IF v[1] = "Decimal"
                           THEN float(v)
                           ELSE v]>>
            ELSE value]

\* What boto3 sends for a value of an item (a str as S, an int or a
\* Decimal as N) and what it hands back for a stored attribute (an S as
\* str, an N as Decimal, whatever Python type was written).
serialize(value) ==
    IF value[1] = "str" THEN <<"S", value[2]>>
    ELSE IF value[1] = "int" THEN <<"N", FloatOfInt(value[2])>>
    ELSE <<"N", value[2]>>

deserialize(attribute) ==
    IF attribute[1] = "S" THEN StrValue(attribute[2]) ELSE Decimal(attribute[2])

\* The primary key of a stored item: (metric, timestamp).
KeyOf(stored) == <<stored.metric[2], stored.timestamp[2]>>

\* Table.put_item: the item replaces whatever the table holds under its
\* primary key (metric, timestamp).
put_item_Merge(table, item) ==
    LET new == [k \in DOMAIN item |-> serialize(item[k])]
        old == {i \in table : KeyOf(i) = KeyOf(new)}
    IN  IF old = {}
        THEN table \cup {new}
        ELSE (table \ old)
               \cup {[new EXCEPT !.source_object_key = i.source_object_key] :
                        i \in old}

put_item(table, item) ==
    LET new == [k \in DOMAIN item |-> serialize(item[k])]
    IN  {i \in table : KeyOf(i) # KeyOf(new)} \cup {new}

Ok(val) == [kind |-> "ok", val |-> val]
Raise(exc) == [kind |-> exc, val |-> None]

\* Decimal(str(x)) of None is Decimal('None'), which raises
\* decimal.InvalidOperation while the item is built, before any request.
\* io = "fault": the put_item request fails (botocore ClientError) and the
\* method, which has no try/except, ends with it.
save_risk_score(table, metric, timestamp, value, moving_avg_30d, pct_change, risk_score, severity, source_object_key, io) ==
    IF value = None \/ moving_avg_30d = None \/ pct_change = None
    THEN [table |-> table, out |-> Raise("InvalidOperation")]
    ELSE LET item == [metric |-> StrValue(metric),
                      timestamp |-> StrValue(timestamp),
                      value |-> Decimal(value),
                      moving_avg_30d |-> Decimal(moving_avg_30d),
                      pct_change |-> Decimal(pct_change),
                      risk_score |-> IntValue(risk_score),
                      severity |-> StrValue(severity),
                      source_object_key |-> StrValue(source_object_key)]
         IN  IF io = "fault"
             THEN [table |-> table, out |-> Raise("ClientError")]
             ELSE [table |-> put_item(table, item), out |-> Ok(None)]

\* The items of a set, newest timestamp first (ScanIndexForward=False).
RECURSIVE Descending(_)
Descending(items) ==
    IF items = {}
    THEN <<>>
    ELSE LET newest == CHOOSE i \in items :
                           \A j \in items : StrLE(j.timestamp[2], i.timestamp[2])
         IN  <<newest>> \o Descending(items \ {newest})

\* Table.query with the key condition metric = m AND timestamp BETWEEN lo
\* AND hi, newest first, cut after Limit items.  DynamoDB rejects a BETWEEN
\* whose lower bound is above its upper bound (ValidationException, a
\* ClientError).  One answer holds at most 1 MB of items; the tables of the
\* model are far below that, so one answer holds every hit.
query_between(table, metric, lo, hi, limit, io) ==
    LET hits == Descending({i \in table :
                    /\ i.metric[2] = metric
                    /\ StrLE(lo, i.timestamp[2])
                    /\ StrLE(i.timestamp[2], hi)})
        page == SubSeq(hits, 1, Min(limit, Len(hits)))
    IN  IF io = "fault" \/ StrLess(hi, lo)
        THEN Raise("ClientError")
        ELSE Ok([n \in 1..Len(page) |->
                    [k \in DOMAIN page[n] |-> deserialize(page[n][k])]])

get_scores_time_series_EndMidnight(table, metric, start_date, end_date, limit, io) ==
    LET lo == IF Len(start_date) = 1 THEN start_date \o <<0>>
                                     ELSE start_date
        hi == IF Len(end_date) = 1 THEN end_date \o <<0>> ELSE end_date
        response == query_between(table, metric, lo, hi, limit, io)
        items == response.val
    IN  IF response.kind # "ok"
        THEN response
        ELSE Ok([n \in 1..Len(items) |-> _convert_decimal_to_float(items[n])])

\* len(date) == 10 is the bare date; the query is not guarded, so what it
\* raises the method raises.
get_scores_time_series(table, metric, start_date, end_date, limit, io) ==
    LET lo == IF Len(start_date) = 1 THEN start_date \o <<0>>
                                     ELSE start_date
        hi == IF Len(end_date) = 1 THEN end_date \o <<LastSecond>>
                                   ELSE end_date
        response == query_between(table, metric, lo, hi, limit, io)
        items == response.val
    IN  IF response.kind # "ok"
        THEN response
        ELSE Ok([n \in 1..Len(items) |-> _convert_decimal_to_float(items[n])])

\* datetime.now(timezone.utc) looks the name timezone up in the module's
\* globals before the clock is read or the table queried.
get_recent_scores_for_average(table, metric, days, now, io) ==
    IF "timezone" \notin ModuleGlobals
    THEN Raise("NameError")
    ELSE LET start_iso == <<now[1] - days, 0>>
             end_iso == <<now[1], LastSecond>>
         IN  get_scores_time_series(table, metric, start_iso, end_iso,
                                    AverageLimit, io)

\* sum(values): 0 + values[0] + values[1] + ..., each addition rounded.
RECURSIVE SumValues(_, _)
SumValues(values, n) ==
    IF n = 0
    THEN FloatOfInt(0)
    ELSE FloatAdd(SumValues(values, n - 1), values[n])

calculate_moving_average(table, metric, days, now, io) ==
    LET recent_scores ==
            get_recent_scores_for_average(table, metric, days, now, io)
        values == [n \in 1..Len(recent_scores.val) |->
                      float(recent_scores.val[n].value)[2]]
    IN  IF recent_scores.kind # "ok"
        THEN recent_scores
        ELSE IF recent_scores.val = <<>>
        THEN Ok(None)
        ELSE Ok(FloatDiv(SumValues(values, Len(values)),
                         FloatOfInt(Len(values))))

(***************************************************************************)
(* Scoring Orchestrator (spec section 4.4).  One invocation makes two      *)
(* requests of the store, one after the other: it normalises the timestamp *)
(* and reads the moving average (steps 1 and 2), then assesses the value   *)
(* and puts the ScoredObservation (steps 3 and 4).  Nothing is locked      *)
(* between the read and the put (section 5), so steps of other invocations *)
(* may come in between; a step that fails ends the invocation with that    *)
(* failure, nothing is retried.                                            *)
(***************************************************************************)
\* Step 2: moving_average(metric, timestamp, 30) is the client's
\* calculate_moving_average, which takes no as_of and reads the clock.
moving_average(table, metric, as_of, window_days, now, io) ==
    calculate_moving_average(table, metric, window_days, now, io)

\* An absent average is taken as 0 for the assessment only.
baseline(moving_avg) ==
    IF moving_avg = None THEN FloatOfInt(0) ELSE moving_avg

\* Step 3.
assess(current, moving_avg) == calculate_risk(current, baseline(moving_avg))

\* Step 4, the record: moving_avg_30d is the average that was read, absent
\* when the history is empty.
ScoredObservation(metric, timestamp, value, moving_avg, risk) ==
    [metric |-> metric, timestamp |-> timestamp, value |-> value,
     moving_avg_30d |-> moving_avg, pct_change |-> risk.pct_change,
     risk_score |-> risk.risk_score, severity |-> risk.severity]

score(metric, timestamp, value, moving_avg) ==
    ScoredObservation(metric, timestamp, value, moving_avg,
                      assess(value, moving_avg))

\* Step 4, the write: one save_risk_score of the record; the record is
\* returned once it is stored.
persisted(scored, saved) ==
    IF saved.out.kind # "ok"
    THEN saved
    ELSE [table |-> saved.table, out |-> Ok(scored)]

persist(table, scored, source_object_key, io) ==
    persisted(scored,
        save_risk_score(table, scored.metric, scored.timestamp, scored.value,
            scored.moving_avg_30d, scored.pct_change, scored.risk_score,
            scored.severity, source_object_key, io))

(***************************************************************************)
(* Inputs                                                                  *)
(***************************************************************************)
\* How the table answers a request made during a call: it serves it, or it
\* fails it (unavailable, throttled, timed out: a botocore ClientError).
IO == {"ok", "fault"}
Sources == {"raw/a.json", "raw/b.json"}
Values == {100, 110}
RangeArgs == CanonicalTimestamps \cup BareDates
Limits == 1..MaxLimit
Windows == {1, DefaultDays}
\* Observations are daily: a date normalised to T00:00:00Z.
ObservationTimestamps == {<<d, 0>> : d \in Days}
\* The wall clock readings of datetime.now.
Clock == {<<d, 0>> : d \in Days}
\* What a call of get_recent_scores_for_average reads from the clock:
\* datetime.now is called only once its argument timezone.utc is evaluated.
ClockReads == IF "timezone" \in ModuleGlobals THEN Clock ELSE {None}
\* What a caller hands to save_risk_score besides the key.
Payloads ==
    {[value |-> FloatOfInt(100), moving_avg_30d |-> FloatOfInt(0),
      pct_change |-> FloatOfInt(0), risk_score |-> 0, severity |-> "normal",
      source_object_key |-> "raw/a.json"],
     [value |-> FloatOfInt(110), moving_avg_30d |-> FloatOfInt(100),
      pct_change |-> FloatOfInt(10), risk_score |-> 50,
      severity |-> "warning", source_object_key |-> "raw/b.json"],
     [value |-> FloatOfInt(100), moving_avg_30d |-> None,
      pct_change |-> FloatOfInt(0), risk_score |-> 0, severity |-> "normal",
      source_object_key |-> "raw/b.json"]}

\* Percent changes k / PctScale, as the division k / PctScale yields them.
PctInputs == (-MaxPct * PctScale)..(MaxPct * PctScale)
\* Moving averages (0, small ones, one that is a power of two and one that
\* is not) and the current values around each: avg - spread .. avg + spread.
AvgInputs == {0, 12, -24, 100, 2001, 2^14, -(2^14)}
Spread(avg) == IF avg = 0 THEN MaxPct ELSE Min(MaxDev, Abs(avg))
RiskInputs ==
    UNION {{<<avg + j, avg>> : j \in (-Spread(avg))..Spread(avg)} :
              avg \in AvgInputs}

\* last: the call that ended most recently, its arguments, how the table
\* answers a request of the step that ended it ("ok" or "fault"), and what
\* the caller got.  old is what the table held under the written key before
\* the call.
NoCall ==
    [op |-> "init", args |-> [fn |-> "none"], io |-> "none",
     out |-> Ok(None), old |-> {}]

Pending(args) ==
    [op |-> "pending", args |-> args, io |-> "none", out |-> Ok(None),
     old |-> {}]

\* calls: the score_and_persist invocations in flight, one slot per
\* concurrent caller.  A slot is idle, or holds an invocation between its
\* read and its put: the arguments, the ScoredObservation it is about to
\* put, and after, the call that had ended last when it read.
Invocations == 1..MaxCalls
Idle == [pc |-> "idle"]

(***************************************************************************)
(* The table machine: the calls a client makes on one DynamoDBClient.      *)
(***************************************************************************)
Init ==
    /\ store = {}
    /\ last = NoCall
    /\ calls = [p \in Invocations |-> Idle]

SaveRiskScore ==
    \E m \in Metrics, ts \in ObservationTimestamps, p \in Payloads, io \in IO :
        LET r == save_risk_score(store, m, ts, p.value, p.moving_avg_30d,
                     p.pct_change, p.risk_score, p.severity,
                     p.source_object_key, io)
        IN  /\ Cardinality(r.table) <= MaxItems
            /\ store' = r.table
            /\ last' = [op |-> "save_risk_score",
                        args |-> [metric |-> m, timestamp |-> ts, fields |-> p],
                        io |-> io, out |-> r.out,
                        old |-> {i \in store : KeyOf(i) = <<m, ts>>}]
            /\ UNCHANGED calls

GetScoresTimeSeries(ranges, limits) ==
    \E m \in Metrics, s \in ranges, e \in ranges, n \in limits, io \in IO :
        /\ last' = [op |-> "get_scores_time_series",
                    args |-> [metric |-> m, start_date |-> s, end_date |-> e,
                              limit |-> n],
                    io |-> io,
                    out |-> get_scores_time_series(store, m, s, e, n, io),
                    old |-> {}]
        /\ UNCHANGED <<store, calls>>

CalculateMovingAverage ==
    \E m \in Metrics, days \in Windows, now \in ClockReads, io \in IO :
        /\ last' = [op |-> "calculate_moving_average",
                    args |-> [metric |-> m, days |-> days, now |-> now],
                    io |-> io,
                    out |-> calculate_moving_average(store, m, days, now, io),
                    old |-> {}]
        /\ UNCHANGED <<store, calls>>

\* Steps 1 and 2 of invocation p, avg being what the read gave: a failed
\* read ends the invocation; otherwise the value is assessed and the
\* invocation stands before its put.
ReadAverage(p, m, timestamp, v, src, io, avg) ==
    LET args == [metric |-> m, timestamp |-> timestamp, value |-> v,
                 source_object_key |-> src]
        ts == normalize_timestamp(timestamp)
    IN  IF avg.kind # "ok"
        THEN /\ last' = [op |-> "score_and_persist", args |-> args,
                         io |-> io, out |-> avg,
                         old |-> {i \in store : KeyOf(i) = <<m, ts>>}]
             /\ UNCHANGED <<store, calls>>
        ELSE /\ calls' = [calls EXCEPT ![p] =
                             [pc |-> "put", args |-> args, after |-> last,
                              scored |-> score(m, ts, FloatOfInt(v), avg.val)]]
             /\ UNCHANGED <<store, last>>

\* Step 4 of invocation p, r being what the write gave: the invocation
\* ends, with the ScoredObservation or with the failure of the write.
Put(p, io, r) ==
    /\ Cardinality(r.table) <= MaxItems
    /\ store' = r.table
    /\ last' = [op |-> "score_and_persist", args |-> calls[p].args,
                io |-> io, out |-> r.out,
                old |-> {i \in store :
                            KeyOf(i) = <<calls[p].scored.metric,
                                         calls[p].scored.timestamp>>}]
    /\ calls' = [calls EXCEPT ![p] = Idle]

\* The next step of invocation p, whichever it is.  With this client the
\* read never returns (get_recent_scores_for_average raises NameError), so
\* every invocation ends with its read and none comes to its put.
ScoreAndPersist(p) ==
    IF calls[p].pc = "idle"
    THEN \E m \in Metrics, ts \in ObservationTimestamps \cup BareDates, v \in Values, src \in Sources, now \in ClockReads, io \in IO :
             ReadAverage(p, m, ts, v, src, io,
                 moving_average(store, m, normalize_timestamp(ts),
                                DefaultDays, now, io))
    ELSE \E io \in IO :
             Put(p, io, persist(store, calls[p].scored,
                                calls[p].args.source_object_key, io))

Next ==
    \/ SaveRiskScore
    \/ GetScoresTimeSeries(BareDates, {AverageLimit})
    \/ CalculateMovingAverage
    \/ \E p \in Invocations : ScoreAndPersist(p)

Spec == Init /\ [][Next]_vars

(***************************************************************************)
(* Range queries: any table save_risk_score can have built (one item per   *)
(* key; the timestamp is stored as the caller gave it, canonical or a bare *)
(* date), queried once with any arguments.                                 *)
(***************************************************************************)
ItemAt(m, ts) ==
    [metric |-> <<"S", m>>, timestamp |-> <<"S", ts>>,
     value |-> <<"N", FloatOfInt(100)>>,
     moving_avg_30d |-> <<"N", FloatOfInt(0)>>,
     pct_change |-> <<"N", FloatOfInt(0)>>,
     risk_score |-> <<"N", FloatOfInt(0)>>, severity |-> <<"S", "normal">>,
     source_object_key |-> <<"S", "raw/a.json">>]

Tables ==
    {{ItemAt(k[1], k[2]) : k \in ks} :
        ks \in {x \in SUBSET (Metrics \X RangeArgs) : Cardinality(x) <= MaxItems}}

InitQuery ==
    /\ store \in Tables
    /\ last = NoCall
    /\ calls = [p \in Invocations |-> Idle]

NextQuery ==
    /\ last.op = "init"
    /\ GetScoresTimeSeries(RangeArgs, Limits)

SpecQuery == InitQuery /\ [][NextQuery]_vars

(***************************************************************************)
(* The risk engine: inputs drawn at the start, one application each.       *)
(***************************************************************************)
InitEngine ==
    /\ store = {}
    /\ calls = [p \in Invocations |-> Idle]
    /\ \/ \E k \in PctInputs :
              last = Pending([fn |-> "calculate_risk_score",
                              pct_change |-> FloatDiv(FloatOfInt(k),
                                                      FloatOfInt(PctScale))])
       \/ \E p \in RiskInputs :
              last = Pending([fn |-> "calculate_risk",
                              current_value |-> p[1], moving_avg |-> p[2]])
       \/ \E j \in (-MaxPct)..MaxPct :
              last = Pending([fn |-> "assess", current_value |-> j,
                              moving_avg |-> None])

ScorePercentChange ==
    /\ last.op = "pending"
    /\ last.args.fn = "calculate_risk_score"
    /\ last' = [last EXCEPT
                  !.op = "calculate_risk_score",
                  !.out = Ok([risk_score |-> calculate_risk_score(last.args.pct_change),
                              severity |-> determine_severity(last.args.pct_change)])]
    /\ UNCHANGED <<store, calls>>

CalculateRisk ==
    /\ last.op = "pending"
    /\ last.args.fn = "calculate_risk"
    /\ last' = [last EXCEPT
                  !.op = "calculate_risk",
                  !.out = Ok(calculate_risk(FloatOfInt(last.args.current_value), FloatOfInt(last.args.moving_avg)))]
    /\ UNCHANGED <<store, calls>>

Assess ==
    /\ last.op = "pending"
    /\ last.args.fn = "assess"
    /\ last' = [last EXCEPT
                  !.op = "assess",
                  !.out = Ok(assess(FloatOfInt(last.args.current_value), last.args.moving_avg))]
    /\ UNCHANGED <<store, calls>>

NextEngine ==
    \/ ScorePercentChange
    \/ CalculateRisk
    \/ Assess

SpecEngine == InitEngine /\ [][NextEngine]_vars

(***************************************************************************)
(* Shared vocabulary of the properties                                     *)
(***************************************************************************)
ScoreRange(severity) ==
    IF severity = "normal" THEN 0..30
    ELSE IF severity = "warning" THEN 31..69
    ELSE 71..100

\* x at or above the integer n, and x equal to it.
AtLeast(x, n) == FloatCmp(x, FloatOfInt(n)) >= 0
Exactly(x, n) == FloatCmp(x, FloatOfInt(n)) = 0

\* The band of a magnitude against the thresholds 5 and 15.
Band(x) ==
    IF ~AtLeast(x, 5) THEN "normal"
    ELSE IF ~AtLeast(x, 15) THEN "warning"
    ELSE "critical"

RECURSIVE SumOf(_)
SumOf(items) ==
    IF items = {}
    THEN FloatOfInt(0)
    ELSE LET i == CHOOSE x \in items : TRUE
         IN  FloatAdd(i.value[2], SumOf(items \ {i}))

\* The observations of metric with as_of - window_days <= t < as_of.
Baseline(table, metric, as_of, window_days) ==
    {i \in table :
        /\ i.metric[2] = metric
        /\ StrLE(<<as_of[1] - window_days, as_of[2]>>, i.timestamp[2])
        /\ StrLess(i.timestamp[2], as_of)}

(***************************************************************************)
(* C1.  moving_average(metric, as_of, window_days) returns the unweighted  *)
(* mean of the stored observations of the metric with                      *)
(* as_of - window_days <= t < as_of, and absent when there is none.  The   *)
(* code takes no as_of: it is the clock reading of the call, so the        *)
(* statement is taken for some reading of the clock.                       *)
(***************************************************************************)
C1_MovingAverageIsWindowMean ==
    (last.op = "calculate_moving_average" /\ last.io # "fault") =>
        /\ last.out.kind = "ok"
        /\ \E as_of \in Clock :
              LET b == Baseline(store, last.args.metric, as_of, last.args.days)
              IN  IF b = {}
                  THEN last.out.val = None
                  ELSE /\ last.out.val # None
                       /\ FloatEq(last.out.val,
                                  FloatDiv(SumOf(b), FloatOfInt(Cardinality(b))))

(***************************************************************************)
(* C2.  Two score_and_persist calls in a row with the same metric,         *)
(* timestamp and value (the source_object_key may differ), the second made *)
(* after the first has ended and nothing else having ended in between,     *)
(* both return a ScoredObservation, the same one, and the second leaves    *)
(* the store as the first left it.                                         *)
(***************************************************************************)
SameObservation(a, b) ==
    /\ a.metric = b.metric
    /\ a.timestamp = b.timestamp
    /\ a.value = b.value

\* A score_and_persist call ends in this step: with its read, when that
\* fails, or with its put.
CallEnds ==
    /\ last'.op = "score_and_persist"
    /\ \A p \in Invocations : ~(calls[p].pc = "idle" /\ calls'[p].pc = "put")

C2_ScoringIsIdempotent ==
    [][(/\ CallEnds
        /\ last.op = "score_and_persist"
        /\ \A p \in Invocations :
              (calls[p].pc = "put" /\ calls'[p].pc = "idle")
                 => calls[p].after = last
        /\ last.io # "fault"
        /\ last'.io # "fault"
        /\ SameObservation(last.args, last'.args))
       => (/\ last.out.kind = "ok"
           /\ last'.out = last.out
           /\ store' = store)]_vars

(***************************************************************************)
(* C3.  With a moving average that is 0 (calculate_risk) or absent (the    *)
(* orchestrator's assess, which takes absent as 0), every value scores     *)
(* pct_change 0.0, risk_score 0, severity normal, as an ordinary result;   *)
(* percent_change(x, 0) is 0.0.                                            *)
(***************************************************************************)
C3_NoBaselineScoresZero ==
    (\/ last.op = "calculate_risk" /\ last.args.moving_avg = 0
     \/ last.op = "assess" /\ last.args.moving_avg = None)
    => /\ last.out.kind = "ok"
       /\ last.out.val = [pct_change |-> FloatOfInt(0), risk_score |-> 0,
                          severity |-> "normal"]
       /\ calculate_percent_change(FloatOfInt(last.args.current_value),
                                   FloatOfInt(0)) = FloatOfInt(0)

C3_Witness ==
    /\ last.op = "assess"
    /\ last.args.moving_avg = None
    /\ last.args.current_value = 50
    /\ last.out.val.risk_score = 0

(***************************************************************************)
(* C4.  risk_score is an integer of 0..100: within 0..30 below 5 percent,  *)
(* within 31..69 from 5 to below 15 percent, within 71..100 from 15        *)
(* percent on, and 100 from 50 percent on, whatever the sign.              *)
(***************************************************************************)
C4_ScoreWithinBand ==
    (last.op = "calculate_risk_score") =>
        LET a == FloatAbs(last.args.pct_change)
            s == last.out.val.risk_score
        IN  /\ s \in 0..100
            /\ s \in ScoreRange(Band(a))
            /\ (AtLeast(a, 50) => s = 100)

C4_Witness ==
    /\ last.op = "calculate_risk_score"
    /\ FloatLess(last.args.pct_change, FloatOfInt(-50))
    /\ last.out.val.risk_score = 100

(***************************************************************************)
(* C5.  From 5 - 1/3 percent to just below 5 the score is 28 or 29 and the *)
(* severity normal; at exactly 5 the severity is warning and the score 31; *)
(* below 15 (from 5 on) the severity is warning; at exactly 15 the         *)
(* severity is critical and the score 71.                                  *)
(***************************************************************************)
C5_Thresholds ==
    (last.op = "calculate_risk_score") =>
        LET a == FloatAbs(last.args.pct_change)
            \* 3 * a, exactly
            a3 == <<1, BigMulSmall(a[2], 3, 0), a[3]>>
            s == last.out.val.risk_score
            sev == last.out.val.severity
        IN  /\ (AtLeast(a3, 14) /\ ~AtLeast(a, 5))
                  => (s \in {28, 29} /\ sev = "normal")
            /\ Exactly(a, 5) => (s = 31 /\ sev = "warning")
            /\ (AtLeast(a, 5) /\ ~AtLeast(a, 15)) => sev = "warning"
            /\ Exactly(a, 15) => (s = 71 /\ sev = "critical")

C5_Witness ==
    /\ last.op = "calculate_risk_score"
    /\ last.args.pct_change = FloatDiv(FloatOfInt(5 * PctScale - 1),
                                       FloatOfInt(PctScale))
    /\ last.out.val = [risk_score |-> 29, severity |-> "normal"]

(***************************************************************************)
(* C6.  The table holds at most one item per (metric, timestamp); after a  *)
(* successful save_risk_score the item under the written key is exactly    *)
(* the one written (nothing of an earlier item survives) and the items     *)
(* under every other key are as before.                                    *)
(***************************************************************************)
WrittenItem(a) ==
    [metric |-> <<"S", a.metric>>, timestamp |-> <<"S", a.timestamp>>,
     value |-> <<"N", a.fields.value>>,
     moving_avg_30d |-> <<"N", a.fields.moving_avg_30d>>,
     pct_change |-> <<"N", a.fields.pct_change>>,
     risk_score |-> <<"N", FloatOfInt(a.fields.risk_score)>>,
     severity |-> <<"S", a.fields.severity>>,
     source_object_key |-> <<"S", a.fields.source_object_key>>]

KeysUnique == \A i, j \in store : KeyOf(i) = KeyOf(j) => i = j

C6_LastWriteWins ==
    /\ []KeysUnique
    /\ [][(last'.op = "save_risk_score" /\ last'.out.kind = "ok") =>
            LET k == <<last'.args.metric, last'.args.timestamp>>
            IN  /\ {i \in store' : KeyOf(i) = k} = {WrittenItem(last'.args)}
                /\ {i \in store' : KeyOf(i) # k} = {i \in store : KeyOf(i) # k}]_vars

C6_Witness ==
    /\ last.op = "save_risk_score"
    /\ last.out.kind = "ok"
    /\ last.old # {}
    /\ \A i \in last.old :
          i.source_object_key[2] # last.args.fields.source_object_key
    /\ Cardinality(store) = 2

(***************************************************************************)
(* C7.  get_scores_time_series returns items of the metric only, each with *)
(* start <= t <= end (a bare date as start meaning T00:00:00Z, as end      *)
(* T23:59:59Z), strictly newest first, and as many as the limit allows:    *)
(* the newest min(limit, size of the range) items of the range.            *)
(***************************************************************************)
C7_QueryRange ==
    (last.op = "get_scores_time_series" /\ last.out.kind = "ok") =>
        LET a == last.args
            res == last.out.val
            lo == IF a.start_date \in BareDates THEN <<a.start_date[1], 0>>
                                                ELSE a.start_date
            hi == IF a.end_date \in BareDates THEN <<a.end_date[1], LastSecond>>
                                              ELSE a.end_date
            range == {i \in store : /\ i.metric[2] = a.metric
                                    /\ StrLE(lo, i.timestamp[2])
                                    /\ StrLE(i.timestamp[2], hi)}
        IN  /\ \A n \in 1..Len(res) :
                  \E i \in range : /\ res[n].metric = <<"str", a.metric>>
                                   /\ res[n].timestamp = <<"str", i.timestamp[2]>>
                                   /\ res[n].value = <<"float", i.value[2]>>
            /\ \A n \in 1..(Len(res) - 1) :
                  StrLess(res[n + 1].timestamp[2], res[n].timestamp[2])
            /\ Len(res) = Min(a.limit, Cardinality(range))
            /\ \A i \in range :
                  \/ \E n \in 1..Len(res) : res[n].timestamp[2] = i.timestamp[2]
                  \/ \A n \in 1..Len(res) :
                        StrLess(i.timestamp[2], res[n].timestamp[2])

C7_Witness ==
    /\ last.op = "get_scores_time_series"
    /\ last.out.kind = "ok"
    /\ last.args.start_date = <<0>>
    /\ last.args.end_date = <<0>>
    /\ last.args.limit = 1
    /\ Len(last.out.val) = 1
    /\ last.out.val[1].timestamp = <<"str", <<0, LastSecond>>>>
    /\ \E i \in store : i.metric[2] = last.args.metric /\ i.timestamp[2] = <<0, 0>>

(***************************************************************************)
(* C8.  A score_and_persist call during which the store fails the read or  *)
(* the write ends with that failure and leaves the table as it was; a call *)
(* that ends with any failure has written nothing; a call that returns has *)
(* put exactly one whole item, the ScoredObservation it returns, under its *)
(* key and has touched no other item.                                      *)
(***************************************************************************)
Attributes ==
    {"metric", "timestamp", "value", "moving_avg_30d", "pct_change",
     "risk_score", "severity", "source_object_key"}

\* The stored form of a ScoredObservation.
PersistedItem(scored, source_object_key) ==
    [metric |-> <<"S", scored.metric>>, timestamp |-> <<"S", scored.timestamp>>,
     value |-> <<"N", scored.value>>,
     moving_avg_30d |-> <<"N", scored.moving_avg_30d>>,
     pct_change |-> <<"N", scored.pct_change>>,
     risk_score |-> <<"N", FloatOfInt(scored.risk_score)>>,
     severity |-> <<"S", scored.severity>>,
     source_object_key |-> <<"S", source_object_key>>]

\* The table holds the ScoredObservation, whole, as the one item of its key.
Persisted(table, scored, source_object_key) ==
    /\ DOMAIN PersistedItem(scored, source_object_key) = Attributes
    /\ {i \in table : KeyOf(i) = <<scored.metric, scored.timestamp>>}
          = {PersistedItem(scored, source_object_key)}

ItemsOf(metric, table) == {i \in table : i.metric[2] = metric}

C10_SeverityIsBandOfReturned ==
    (last.op = "calculate_risk") =>
        LET r == last.out.val
        IN  /\ r.severity = Band(FloatAbs(r.pct_change))
            /\ r.risk_score \in ScoreRange(Band(FloatAbs(r.pct_change)))

(***************************************************************************)
(* C10, amended.  The severity is the band of the unrounded percent change *)
(* that calculate_percent_change computes, which is also the band of the   *)
(* true ratio 100 * |current - avg| / |avg| (0 for avg = 0), and the       *)
(* risk_score lies in that band's range; the returned pct_change, rounded  *)
(* to 2 decimals, may sit on the threshold above: normal has               *)
(* |returned| <= 5.00, warning 5.00 <= |returned| <= 15.00, critical       *)
(* |returned| >= 15.00.                                                    *)
(***************************************************************************)
C10_SeverityIsBandOfUnrounded ==
    (last.op = "calculate_risk") =>
        LET r == last.out.val
            c == last.args.current_value
            avg == last.args.moving_avg
            band == Band(FloatAbs(calculate_percent_change(FloatOfInt(c),
                                                           FloatOfInt(avg))))
            exact == IF avg = 0 \/ 100 * Abs(c - avg) < 5 * Abs(avg)
                    THEN "normal"
                    ELSE IF 100 * Abs(c - avg) < 15 * Abs(avg)
                    THEN "warning"
                    ELSE "critical"
            h == FloatAbs(r.pct_change)
        IN  /\ r.severity = band
            /\ band = exact
            /\ r.risk_score \in ScoreRange(band)
            /\ (band = "normal" => ~FloatLess(FloatOfInt(5), h))
            /\ (band = "warning" => (AtLeast(h, 5) /\ ~FloatLess(FloatOfInt(15), h)))
            /\ (band = "critical" => AtLeast(h, 15))

C10_Witness ==
    /\ last.op = "calculate_risk"
    /\ last.out.val.pct_change = FloatOfInt(5)
    /\ last.out.val.severity = "normal"
    /\ last.out.val.risk_score = 29

====
